---- MODULE Spec2Model ----
(***************************************************************************)
(* A model of wmi-rs: the query cursor of src/src/query.rs                 *)
(* (WMIConnection::query, QueryResultEnumerator::next and its Drop) over   *)
(* a native forward-only enumerator, and the timestamp parser of           *)
(* src/src/datetime.rs (WMIDateTime::from_str).                            *)
(***************************************************************************)
EXTENDS Integers, Sequences, FiniteSets, TLC

VARIABLES
    records,      \* native side: the Caption VARIANT of each record of the result set
    pos,          \* native side: how many records the enumerator has delivered
    enumRefs,     \* native side: enumerator references handed to this layer
    enumReleases, \* native side: Release calls received by the enumerator
    objAcquired,  \* native side: per-record references handed out by Next
    objReleased,  \* native side: Release calls received by record objects
    execCalls,    \* native side: ExecQuery calls received
    execHres,     \* native side: status of the last ExecQuery call
    queryText,    \* the text query() was called with, <<>> before the call
    queryResult,  \* what query() returned: "pending", "Ok" or "Err"
    cursor,       \* the QueryResultEnumerator: [state, p_enumerator]
    proc,         \* the process: "running" or "aborted"
    results,      \* the outcome of every call of next(), in order
    lastPull,     \* the native calls made by the last call of next()
    dtInput,      \* the text given to WMIDateTime::from_str
    dtResult      \* what from_str did with it

cursorVars == <<records, pos, enumRefs, enumReleases, objAcquired, objReleased,
                execCalls, execHres, queryText, queryResult, cursor, proc, results,
                lastPull>>
dtVars == <<dtInput, dtResult>>
vars == <<cursorVars, dtVars>>

(***************************************************************************)
(* Bounds of the model.                                                    *)
(***************************************************************************)
MaxRecords == 2
MaxPulls == 4

(***************************************************************************)
(* The native value buffer (VARIANT) of a record's Caption property: a     *)
(* type tag and, under VT_BSTR, the UTF-16 code units of the text.         *)
(***************************************************************************)
Variants ==
    { [vt |-> "VT_BSTR", val |-> <<65>>],            \* "A"
      [vt |-> "VT_BSTR", val |-> <<55357, 56832>>],  \* a surrogate pair, U+1F600
      [vt |-> "VT_BSTR", val |-> <<55296>>],         \* a lone surrogate: not UTF-16
      [vt |-> "VT_NULL", val |-> <<>>],              \* the property is null
      [vt |-> "VT_EMPTY", val |-> <<>>],             \* no such property: the buffer stays zeroed
      [vt |-> "VT_ARRAY", val |-> <<>>] }            \* an array property: a SAFEARRAY pointer

RECURSIVE SeqsUpTo(_, _)
SeqsUpTo(S, n) ==
    IF n = 0 THEN { <<>> }
    ELSE LET shorter == SeqsUpTo(S, n - 1)
         IN  shorter \cup { Append(s, x) : s \in { t \in shorter : Len(t) = n - 1 }, x \in S }

ResultSets == SeqsUpTo(Variants, MaxRecords)

(***************************************************************************)
(* String::from_utf16, as called by WideCStr::to_string: a code unit       *)
(* outside the surrogate range is its own code point, a high surrogate     *)
(* followed by a low one combines with it, anything else is an error.      *)
(***************************************************************************)
IsHigh(u) == 55296 <= u /\ u <= 56319
IsLow(u) == 56320 <= u /\ u <= 57343

RECURSIVE WellFormedUtf16(_)
WellFormedUtf16(w) ==
    IF w = <<>> THEN TRUE
    ELSE IF IsHigh(w[1]) THEN Len(w) >= 2 /\ IsLow(w[2]) /\ WellFormedUtf16(SubSeq(w, 3, Len(w)))
    ELSE IF IsLow(w[1]) THEN FALSE
    ELSE WellFormedUtf16(Tail(w))

RECURSIVE Utf16Decode(_)
Utf16Decode(w) ==
    IF w = <<>> THEN <<>>
    ELSE IF IsHigh(w[1])
         THEN <<65536 + (w[1] - 55296) * 1024 + (w[2] - 56320)>> \o Utf16Decode(SubSeq(w, 3, Len(w)))
         ELSE <<w[1]>> \o Utf16Decode(Tail(w))

to_string(w) ==
    IF WellFormedUtf16(w) THEN [ok |-> TRUE, s |-> Utf16Decode(w)]
    ELSE [ok |-> FALSE, s |-> <<>>]

(***************************************************************************)
(* crate::utils::check_hres: a negative HRESULT is an error.               *)
(***************************************************************************)
\* The statuses used below: -1 a failure, 0 S_OK, 1 WBEM_S_FALSE.
check_hres(hres) == IF hres < 0 THEN "Err" ELSE "Ok"

(***************************************************************************)
(* WMIConnection::query.  WideCString::from_str fails on a query text that *)
(* holds a NUL; otherwise ExecQuery is called once and its status decides. *)
(***************************************************************************)
Queries == { <<83, 69, 76>>, <<83, 0, 76>> }   \* code points; the second holds a NUL

ContainsNul(q) == \E i \in 1..Len(q) : q[i] = 0

\* What the native ExecQuery can do: fail and leave the out-pointer null, succeed
\* and hand out one enumerator reference, or succeed with a null out-pointer.
ExecQueryOutcomes ==
    { [hres |-> -1, p |-> "NULL"],
      [hres |-> 0,  p |-> "ENUM"],
      [hres |-> 0,  p |-> "NULL"] }

NoCursor == [state |-> "none", p_enumerator |-> "None"]

\* Unique::new_unchecked: Some whatever the pointer.
Unique_new_unchecked(p) == "Some"

\* Unique::new: None for a null pointer.
Unique_new(p) == IF p = "NULL" THEN "None" ELSE "Some"

\* A query() that builds its cursor without looking at the status.
query_returns_unchecked(out) ==
    [result |-> "Ok", cursor |-> [state |-> "live", p_enumerator |-> Unique_new(out.p)]]

\* The `?` on check_hres and the Ok(QueryResultEnumerator { .. }) that follows it.
query_returns(out) ==
    IF check_hres(out.hres) = "Err"
    THEN [result |-> "Err", cursor |-> NoCursor]
    ELSE [result |-> "Ok",
          cursor |-> [state |-> "live", p_enumerator |-> Unique_new(out.p)]]

\* A query() that calls ExecQuery a second time when the first call fails.
exec_query_retried(out) == IF out.hres < 0 THEN 2 ELSE 1

\* The ExecQuery calls of a query() whose text converted: the one at lines 36-41.
exec_query_calls(out) == 1

query(q, out) ==
    /\ queryResult = "pending"
    /\ queryText' = q
    /\ IF ContainsNul(q)
       THEN /\ queryResult' = "Err"
            /\ UNCHANGED <<execCalls, execHres, enumRefs, cursor>>
       ELSE /\ execCalls' = execCalls + exec_query_calls(out)
            /\ execHres' = out.hres
            /\ enumRefs' = IF out.p = "ENUM" THEN enumRefs + 1 ELSE enumRefs
            /\ queryResult' = query_returns(out).result
            /\ cursor' = query_returns(out).cursor
    /\ UNCHANGED <<records, pos, enumReleases, objAcquired, objReleased,
                   proc, results, lastPull, dtVars>>

(***************************************************************************)
(* Drop for QueryResultEnumerator: one Release if p_enumerator is Some.    *)
(* Rust runs it once, when the owner lets go of a cursor that exists; a    *)
(* process that has aborted runs nothing.                                  *)
(***************************************************************************)
\* A drop that calls Release without looking at the slot.
drop_releases_always(c) == 1

drop_releases(c) == IF c.p_enumerator = "Some" THEN 1 ELSE 0

\* A cursor that is still there to be dropped after its drop has run.
cursor_alive_after_drop(c) == c

\* The cursor once drop has run: the value is gone, and its slot is as drop found
\* it, since `if let Some(p_enumerator) = self.p_enumerator` copies the pointer out
\* and writes nothing back.
cursor_after_drop(c) == [c EXCEPT !.state = "dropped"]

drop ==
    /\ cursor.state = "live"
    /\ proc = "running"
    /\ enumReleases' = enumReleases + drop_releases(cursor)
    /\ cursor' = cursor_after_drop(cursor)
    /\ UNCHANGED <<records, pos, enumRefs, objAcquired, objReleased, execCalls,
                   execHres, queryText, queryResult, proc, results, lastPull, dtVars>>

(***************************************************************************)
(* The native IEnumWbemClassObject::Next(WBEM_INFINITE, 1, ..): a failure  *)
(* status with nothing returned, S_OK with the next record and one         *)
(* reference to it, or WBEM_S_FALSE with zero records once exhausted.      *)
(***************************************************************************)
NativeNext(fail) ==
    IF fail THEN [hres |-> -1, return_value |-> 0, pcls_obj |-> 0]
    ELSE IF pos < Len(records) THEN [hres |-> 0, return_value |-> 1, pcls_obj |-> pos + 1]
    ELSE [hres |-> 1, return_value |-> 0, pcls_obj |-> 0]

NoPull == [fetchCalls |-> 0, fetchCount |-> 0, fetchHres |-> 0, gets |-> 0, clears |-> 0,
           tag |-> "", derefAsText |-> FALSE, readAfterClear |-> FALSE,
           acquired |-> 0, released |-> 0]

\* What a call of next() came to: Some(Ok(val)), Some(Err(err)), None, a panic or the
\* death of the process; rec is the record the call fetched, 0 when it fetched none.
Item(kind, val, rec, err) == [kind |-> kind, val |-> val, rec |-> rec, err |-> err]

\* `return None` on return_value == 0.
exhausted_item == Item("None", <<>>, 0, "")

\* A next() that reports a failed fetch as the end of the results.
fetch_error_as_none == exhausted_item

\* `return Some(Err(e.into()))` on a failed fetch.
fetch_error_item == Item("SomeErr", <<>>, 0, "HResultError")

(***************************************************************************)
(* Lines 99-129 of next(): Get fills vt_prop, the bstrVal member is read   *)
(* whatever the tag, from_ptr_str takes a view of the text, VariantClear   *)
(* frees it, and only then to_string().unwrap() reads the view.  Reading   *)
(* bstrVal under another tag and reading the freed text are undefined:     *)
(* `ub` ranges over what the build can do there.                           *)
(*   intact      the freed text still holds what it held                   *)
(*   garbage     the memory read holds other, well-formed, text            *)
(*   badgarbage  the memory read holds ill-formed UTF-16                   *)
(*   nullassert  the handle read is null: from_ptr_str's assertion panics  *)
(*   abort       the read faults and the process dies                      *)
(* Under VT_NULL and VT_EMPTY the member read is the zeroed buffer, a null *)
(* handle; under VT_ARRAY it is the address of the array descriptor.       *)
(***************************************************************************)
GarbageText == <<71>>
GarbageBad == <<56320>>

UBOutcomes(v) ==
    IF v.vt = "VT_BSTR" THEN { "intact", "garbage", "badgarbage", "abort" }
    ELSE IF v.vt \in { "VT_NULL", "VT_EMPTY" } THEN { "nullassert", "abort" }
    ELSE { "garbage", "badgarbage", "abort" }

\* What to_string() reads through the view after VariantClear.
ReadView(v, ub) ==
    IF ub = "intact" THEN v.val
    ELSE IF ub = "garbage" THEN GarbageText
    ELSE GarbageBad

\* Whether line 112 reads the buffer's bstrVal member: it does, whatever the tag.
reads_bstrVal(v) == TRUE

\* The view taken at line 115 faults or panics before VariantClear is reached.
StopsAtView(v, ub) == v.vt # "VT_BSTR" /\ ub \in { "nullassert", "abort" }

\* `prop_val.to_string().unwrap()`: a panic when the text is not UTF-16.
unwrap_to_string(w, rec) ==
    IF to_string(w).ok THEN Item("SomeOk", to_string(w).s, rec, "")
    ELSE Item("Panic", <<>>, rec, "")

\* Whether line 126 is reached: only when nothing before it panicked or faulted.
releases_record(item) == IF item.kind = "SomeOk" THEN 1 ELSE 0

decode(v, rec, ub) ==
    LET item == IF ub = "abort" THEN Item("Abort", <<>>, rec, "")
                ELSE IF StopsAtView(v, ub) THEN Item("Panic", <<>>, rec, "")
                ELSE unwrap_to_string(ReadView(v, ub), rec)
        cleared == ~StopsAtView(v, ub)
    IN  [item |-> item,
         gets |-> 1,
         tag |-> v.vt,
         derefAsText |-> reads_bstrVal(v),
         clears |-> IF cleared THEN 1 ELSE 0,
         readAfterClear |-> cleared,
         released |-> releases_record(item)]

(***************************************************************************)
(* QueryResultEnumerator::next, the whole call.                            *)
(***************************************************************************)
\* A next() that gives up its enumerator slot once it has reported an error.
cursor_poisoned_after_error(c, item) ==
    IF item.kind = "SomeErr" THEN [c EXCEPT !.p_enumerator = "None"] ELSE c

\* A next() that gives up its enumerator slot when decoding panics.
cursor_cleared_after_panic(c, item) ==
    IF item.kind = "Panic" THEN [c EXCEPT !.p_enumerator = "None"] ELSE c

\* next() assigns nothing to self: whatever the call came to, the cursor it
\* leaves is the cursor it found.
cursor_after_pull(c, item) == c

\* A next() that releases the enumerator when it reports the end of the results.
next_releases_at_end(item) == IF item.kind = "None" THEN 1 ELSE 0

\* The Release calls next() makes on the enumerator: it has none.
next_releases(item) == 0

EndPull(item, pull) ==
    /\ results' = Append(results, item)
    /\ lastPull' = pull
    /\ proc' = IF item.kind = "Abort" THEN "aborted" ELSE proc
    /\ cursor' = cursor_after_pull(cursor, item)
    /\ enumReleases' = enumReleases + next_releases(item)

next(fail, ub) ==
    /\ cursor.state = "live"
    /\ proc = "running"
    /\ Len(results) < MaxPulls
    /\ IF cursor.p_enumerator = "None"
       THEN /\ EndPull(exhausted_item, NoPull)
            /\ UNCHANGED <<pos, objAcquired, objReleased>>
       ELSE LET r == NativeNext(fail)
                fetched == [NoPull EXCEPT !.fetchCalls = 1, !.fetchCount = 1,
                                          !.fetchHres = r.hres,
                                          !.acquired = r.return_value]
            IN  /\ pos' = pos + r.return_value
                /\ objAcquired' = objAcquired + r.return_value
                /\ IF check_hres(r.hres) = "Err"
                   THEN /\ EndPull(fetch_error_item, fetched)
                        /\ UNCHANGED objReleased
                   ELSE IF r.return_value = 0
                   THEN /\ EndPull(exhausted_item, fetched)
                        /\ UNCHANGED objReleased
                   ELSE /\ ub \in UBOutcomes(records[r.pcls_obj])
                        /\ LET d == decode(records[r.pcls_obj], r.pcls_obj, ub)
                           IN  /\ EndPull(d.item,
                                          [fetched EXCEPT !.gets = d.gets,
                                                          !.clears = d.clears,
                                                          !.tag = d.tag,
                                                          !.derefAsText = d.derefAsText,
                                                          !.readAfterClear = d.readAfterClear,
                                                          !.released = d.released])
                               /\ objReleased' = objReleased + d.released
    /\ UNCHANGED <<records, enumRefs, execCalls, execHres, queryText, queryResult,
                   dtVars>>

(***************************************************************************)
(* The cursor's specification: a result set is fixed, then query() runs    *)
(* once and its cursor is pulled and dropped.                              *)
(***************************************************************************)
AllUB == { "intact", "garbage", "badgarbage", "nullassert", "abort" }

DtIdle == /\ dtInput = <<>>
          /\ dtResult = [kind |-> "none"]

Init ==
    /\ records \in ResultSets
    /\ pos = 0
    /\ enumRefs = 0
    /\ enumReleases = 0
    /\ objAcquired = 0
    /\ objReleased = 0
    /\ execCalls = 0
    /\ execHres = 0
    /\ queryText = <<>>
    /\ queryResult = "pending"
    /\ cursor = NoCursor
    /\ proc = "running"
    /\ results = <<>>
    /\ lastPull = NoPull
    /\ DtIdle

Next ==
    \/ \E q \in Queries, out \in ExecQueryOutcomes : query(q, out)
    \/ \E fail \in BOOLEAN, ub \in AllUB : next(fail, ub)
    \/ drop

Spec == Init /\ [][Next]_vars

(***************************************************************************)
(* Properties of the cursor.                                               *)
(***************************************************************************)
Last == results[Len(results)]

\* The record's Caption is text that converts to a string.
Decodable(v) == v.vt = "VT_BSTR" /\ to_string(v.val).ok

NoFetchFailure == \A i \in 1..Len(results) : results[i].kind # "SomeErr"

\* C1: over a source of N records that all hold convertible text, with an enumerator
\* held and no failed fetch, the first N calls of next() return Some(Ok(_)) and call
\* N+1 returns None.
C1_FirstNThenNone ==
    (/\ cursor.p_enumerator = "Some"
     /\ \A r \in 1..Len(records) : Decodable(records[r])
     /\ NoFetchFailure)
    => \A i \in 1..Len(results) :
         /\ i <= Len(records) => results[i].kind = "SomeOk"
         /\ i = Len(records) + 1 => results[i].kind = "None"

\* C2: when a call of next() is over, however it ended, every per-record reference
\* the native fetch handed out has been released.
C2_RecordRefsBalanced == objAcquired = objReleased

\* C3: the enumerator receives no Release while the cursor exists, and once the
\* cursor is destroyed it has received exactly one if the slot held a reference
\* and none otherwise; never more than one, never more than were handed out.
C3_EnumeratorReleasedOnce ==
    /\ enumReleases <= 1
    /\ enumReleases <= enumRefs
    /\ cursor.state # "dropped" => enumReleases = 0
    /\ cursor.state = "dropped" =>
         enumReleases = (IF cursor.p_enumerator = "Some" THEN 1 ELSE 0)

\* C3's case: a cursor that held a reference and had reported None or an error
\* has been destroyed, and the enumerator was released once.
C3_Witness ==
    /\ cursor.state = "dropped"
    /\ cursor.p_enumerator = "Some"
    /\ enumReleases = 1
    /\ \E i \in 1..Len(results) : results[i].kind = "None"
    /\ \E i \in 1..Len(results) : results[i].kind = "SomeErr"

\* C4: a pull whose value buffer carries a tag other than text ends in
\* Some(Err(UnexpectedValueKind)) and never reads the buffer as a text handle.
C4_TagCheckedBeforeRead ==
    (Len(results) > 0 /\ lastPull.gets = 1 /\ lastPull.tag # "VT_BSTR")
    => /\ Last.kind = "SomeErr"
       /\ Last.err = "UnexpectedValueKind"
       /\ ~lastPull.derefAsText

\* C5: a call of next() whose native fetch reports a failure status returns
\* Some(Err(e)), not None.
C5_FetchFailureIsSomeErr ==
    (Len(results) > 0 /\ lastPull.fetchCalls = 1 /\ check_hres(lastPull.fetchHres) = "Err")
    => Last.kind = "SomeErr"

\* C5's case: the last call of next() made a fetch that failed, with records left.
C5_Witness ==
    /\ Len(results) > 0
    /\ lastPull.fetchCalls = 1
    /\ lastPull.fetchHres < 0
    /\ pos < Len(records)
    /\ Last.kind = "SomeErr"

\* C6: when ExecQuery reports a failure status, query() returns an error, no
\* cursor exists, and the enumerator is neither held nor ever released.
C6_FailedQueryBuildsNothing ==
    (execCalls > 0 /\ check_hres(execHres) = "Err")
    => /\ queryResult = "Err"
       /\ cursor = NoCursor
       /\ enumRefs = 0
       /\ enumReleases = 0
       /\ results = <<>>

\* C6's case: ExecQuery was called and failed.
C6_Witness ==
    /\ execCalls = 1
    /\ execHres < 0
    /\ queryResult = "Err"

\* C7: a pull whose record does not decode (the tag is not text, or the text does
\* not convert to a string) returns Some(Err(e)), and the record was released.
C7_DecodeFailureIsSomeErr ==
    (Len(results) > 0 /\ Last.rec > 0 /\ ~Decodable(records[Last.rec]))
    => /\ Last.kind = "SomeErr"
       /\ lastPull.released = lastPull.acquired

\* C10: the k-th Some(Ok(_)) of next() carries the value decoded from the k-th
\* record the native cursor delivered.
OkItems == SelectSeq(results, LAMBDA it : it.kind = "SomeOk")

C10_ValuesFollowRecords ==
    \A k \in 1..Len(OkItems) :
        /\ OkItems[k].rec = k
        /\ Decodable(records[k])
        /\ OkItems[k].val = to_string(records[k].val).s

(***************************************************************************)
(* WMIDateTime::from_str.  A text is a sequence of characters; every one   *)
(* is one byte of UTF-8 but "U+00E9", which is two.                        *)
(***************************************************************************)
DigitChars == <<"0", "1", "2", "3", "4", "5", "6", "7", "8", "9">>

IsDigit(c) == \E d \in 1..10 : DigitChars[d] = c

DigitValue(c) == (CHOOSE d \in 1..10 : DigitChars[d] = c) - 1

ByteLen(c) == IF c = "U+00E9" THEN 2 ELSE 1

RECURSIVE ByteLength(_)
ByteLength(t) == IF t = <<>> THEN 0 ELSE ByteLen(t[1]) + ByteLength(Tail(t))

\* str::split_at(mid): the two halves, or a panic when mid is past the end or
\* inside a character.
split_at(t, mid) ==
    IF \E k \in 0..Len(t) : ByteLength(SubSeq(t, 1, k)) = mid
    THEN LET k == CHOOSE k \in 0..Len(t) : ByteLength(SubSeq(t, 1, k)) = mid
         IN  [ok |-> TRUE, head |-> SubSeq(t, 1, k), tail |-> SubSeq(t, k + 1, Len(t))]
    ELSE [ok |-> FALSE, head |-> <<>>, tail |-> <<>>]

(***************************************************************************)
(* chrono's parser on the items of "%Y%m%d%H%M%S.%f".  A numeric item      *)
(* skips leading blanks and takes 1 to `width` digits; only the year may   *)
(* carry a sign, and a signed year takes every digit that follows.  %f is  *)
(* the Nanosecond item: up to 9 digits read as a count of nanoseconds.     *)
(***************************************************************************)
RECURSIVE trim_left(_)
trim_left(t) == IF t # <<>> /\ t[1] = " " THEN trim_left(Tail(t)) ELSE t

RECURSIVE CountDigits(_, _)
CountDigits(t, max) ==
    IF max = 0 \/ t = <<>> \/ ~IsDigit(t[1]) THEN 0
    ELSE 1 + CountDigits(Tail(t), max - 1)

RECURSIVE Decimal(_)
Decimal(t) ==
    IF t = <<>> THEN 0 ELSE 10 * Decimal(SubSeq(t, 1, Len(t) - 1)) + DigitValue(t[Len(t)])

\* scan::number(s, 1, max)
scan_number(t, max) ==
    LET n == CountDigits(t, max)
    IN  IF n = 0 THEN [ok |-> FALSE, err |-> IF t = <<>> THEN "TooShort" ELSE "Invalid",
                       v |-> 0, rest |-> t]
        ELSE [ok |-> TRUE, err |-> "", v |-> Decimal(SubSeq(t, 1, n)),
              rest |-> SubSeq(t, n + 1, Len(t))]

NumericItem(t, width, signed) ==
    LET u == trim_left(t)
    IN  IF signed /\ u # <<>> /\ u[1] = "-"
        THEN LET r == scan_number(Tail(u), Len(u)) IN [r EXCEPT !.v = 0 - r.v]
        ELSE IF signed /\ u # <<>> /\ u[1] = "+"
        THEN scan_number(Tail(u), Len(u))
        ELSE scan_number(u, width)

LiteralItem(t, c) ==
    IF t = <<>> THEN [ok |-> FALSE, err |-> "TooShort", rest |-> t]
    ELSE IF t[1] # c THEN [ok |-> FALSE, err |-> "Invalid", rest |-> t]
    ELSE [ok |-> TRUE, err |-> "", rest |-> Tail(t)]

IsLeap(y) == (y % 4 = 0 /\ y % 100 # 0) \/ y % 400 = 0

DaysInMonth(y, m) ==
    IF m = 2 THEN (IF IsLeap(y) THEN 29 ELSE 28)
    ELSE IF m \in {4, 6, 9, 11} THEN 30 ELSE 31

\* Parsed::to_naive_datetime_with_offset: the fields must name a calendar day and
\* a time of day; second 60 is a leap second.
ValidFields(y, mo, d, h, mi, sec) ==
    /\ mo \in 1..12
    /\ d >= 1 /\ d <= DaysInMonth(y, mo)
    /\ h <= 23
    /\ mi <= 59
    /\ sec <= 60

ParseErr(e) == [kind |-> "Err", err |-> e]

\* The offset from_str gives its result: Utc.datetime_from_str never sees tz_part.
parsed_offset(tz_part) == 0

\* Utc.datetime_from_str(datetime_part, "%Y%m%d%H%M%S.%f")
datetime_from_str(t) ==
    LET y == NumericItem(t, 4, TRUE)
        mo == NumericItem(y.rest, 2, FALSE)
        d == NumericItem(mo.rest, 2, FALSE)
        h == NumericItem(d.rest, 2, FALSE)
        mi == NumericItem(h.rest, 2, FALSE)
        sec == NumericItem(mi.rest, 2, FALSE)
        dot == LiteralItem(sec.rest, ".")
        f == NumericItem(dot.rest, 9, FALSE)
    IN  IF ~y.ok THEN ParseErr(y.err)
        ELSE IF ~mo.ok THEN ParseErr(mo.err)
        ELSE IF ~d.ok THEN ParseErr(d.err)
        ELSE IF ~h.ok THEN ParseErr(h.err)
        ELSE IF ~mi.ok THEN ParseErr(mi.err)
        ELSE IF ~sec.ok THEN ParseErr(sec.err)
        ELSE IF ~dot.ok THEN ParseErr(dot.err)
        ELSE IF ~f.ok THEN ParseErr(f.err)
        ELSE IF f.rest # <<>> THEN ParseErr("TooLong")
        ELSE IF ~ValidFields(y.v, mo.v, d.v, h.v, mi.v, sec.v) THEN ParseErr("OutOfRange")
        ELSE [kind |-> "Ok",
              year |-> y.v, month |-> mo.v, day |-> d.v,
              hour |-> h.v, minute |-> mi.v, second |-> sec.v, nano |-> f.v]

from_str_result(t) ==
    LET parts == split_at(t, 21)
    IN  IF ~parts.ok THEN [kind |-> "Panic"]
        ELSE LET dt == datetime_from_str(parts.head)
             IN  IF dt.kind = "Err" THEN dt
                 ELSE [kind |-> "Ok", dt |-> dt, offset |-> parsed_offset(parts.tail)]

\* The "+HH:MM" / "-HH:MM" that to_rfc3339 ends with, for an offset in minutes.
TwoDigits(n) == <<DigitChars[((n \div 10) % 10) + 1], DigitChars[(n % 10) + 1]>>

rfc3339_offset(minutes) ==
    LET a == IF minutes < 0 THEN 0 - minutes ELSE minutes
    IN  <<IF minutes < 0 THEN "-" ELSE "+">> \o TwoDigits(a \div 60) \o <<":">>
        \o TwoDigits(a % 60)

(***************************************************************************)
(* The texts from_str is tried on: dates, fractions and offsets put        *)
(* together, every prefix of a well-formed text, and a text whose byte 21  *)
(* falls inside a character.                                               *)
(***************************************************************************)
DateGood == <<"2", "0", "1", "9", "0", "1", "1", "3", "2", "0", "0", "5", "1", "7">>
DateMonth13 == <<"2", "0", "1", "9", "1", "3", "1", "3", "2", "0", "0", "5", "1", "7">>
DateLetter == <<"2", "0", "1", "9", "0", "1", "1", "3", "2", "0", "0", "5", "1", "x">>
FracA == <<"5", "0", "0", "0", "0", "0">>
FracB == <<"0", "0", "0", "0", "0", "0">>
FracC == <<"9", "9", "9", "9", "9", "9">>
OffP060 == <<"+", "0", "6", "0">>
OffM180 == <<"-", "1", "8", "0">>
OffP000 == <<"+", "0", "0", "0">>
OffM090 == <<"-", "0", "9", "0">>
OffLetter == <<"+", "0", "x", "0">>
OffNosign == <<"0", "0", "6", "0">>
OffShort == <<"+", "6">>

Dates == { DateGood,
           DateMonth13,
           DateLetter }

Fractions == { FracA,
               FracB,
               FracC }

Offsets == { OffP060, OffM180, OffP000, OffM090,
             OffLetter, OffNosign, OffShort }

WellFormedText == DateGood \o <<".">> \o FracA \o OffP060

DTInputs ==
    { d \o <<".">> \o f \o o : d \in Dates, f \in Fractions, o \in Offsets }
    \cup { SubSeq(WellFormedText, 1, n) : n \in 0..Len(WellFormedText) }
    \cup { <<"U+00E9">> \o SubSeq(WellFormedText, 1, Len(WellFormedText) - 2),
           SubSeq(WellFormedText, 1, 20) \o <<"U+00E9">> \o OffP060 }

from_str ==
    /\ dtResult.kind = "none"
    /\ dtInput \in DTInputs
    /\ dtResult' = from_str_result(dtInput)
    /\ UNCHANGED <<dtInput, cursorVars>>

CursorIdle ==
    /\ records = <<>>
    /\ pos = 0
    /\ enumRefs = 0
    /\ enumReleases = 0
    /\ objAcquired = 0
    /\ objReleased = 0
    /\ execCalls = 0
    /\ execHres = 0
    /\ queryText = <<>>
    /\ queryResult = "pending"
    /\ cursor = NoCursor
    /\ proc = "running"
    /\ results = <<>>
    /\ lastPull = NoPull

InitDT ==
    /\ CursorIdle
    /\ dtInput \in DTInputs
    /\ dtResult = [kind |-> "none"]

NextDT == from_str

SpecDT == InitDT /\ [][NextDT]_vars

(***************************************************************************)
(* Properties of the timestamp parser.                                     *)
(***************************************************************************)
\* What follows the first 21 bytes of the input, when it is a sign and three digits.
OffsetPart == split_at(dtInput, 21).tail

IsSignedMinutes(t) ==
    /\ Len(t) = 4
    /\ t[1] \in { "+", "-" }
    /\ \A i \in 2..4 : IsDigit(t[i])

SignedMinutes(t) == IF t[1] = "-" THEN 0 - Decimal(Tail(t)) ELSE Decimal(Tail(t))

\* C8: a text whose offset part is m minutes parses to a timestamp that renders
\* with the offset of m minutes: "+060" as +01:00, "-180" as -03:00.
C8_OffsetApplied ==
    (dtResult.kind = "Ok" /\ IsSignedMinutes(OffsetPart))
    => /\ dtResult.offset = SignedMinutes(OffsetPart)
       /\ OffsetPart = OffP060 => rfc3339_offset(dtResult.offset) = <<"+", "0", "1", ":", "0", "0">>
       /\ OffsetPart = OffM180 => rfc3339_offset(dtResult.offset) = <<"-", "0", "3", ":", "0", "0">>

\* C9: a text of fewer than 25 bytes parses to an error: no panic, no timestamp.
C9_ShortInputIsError ==
    (dtResult.kind # "none" /\ ByteLength(dtInput) < 25) => dtResult.kind = "Err"

(***************************************************************************)
(* Further properties of the cursor.                                       *)
(***************************************************************************)
\* C11: within a pull the text is copied out before the value buffer is cleared:
\* once VariantClear has run, nothing derived from the buffer is read again.
C11_NoReadAfterClear ==
    (Len(results) > 0 /\ lastPull.clears > 0) => ~lastPull.readAfterClear

(***************************************************************************)
(* Further properties of the timestamp parser.                             *)
(***************************************************************************)
\* The six characters after the "." of a text laid out as YYYYMMDDHHMMSS.FFFFFF.
HasFraction ==
    /\ Len(dtInput) >= 21
    /\ \A i \in 1..14 : IsDigit(dtInput[i])
    /\ dtInput[15] = "."
    /\ \A i \in 16..21 : IsDigit(dtInput[i])

FractionPart == SubSeq(dtInput, 16, 21)

\* C12: the six-digit fraction FFFFFF counts microseconds: the parsed timestamp
\* holds FFFFFF * 1000 nanoseconds past the second (".500000" is 500000000).
C12_FractionIsMicroseconds ==
    (dtResult.kind = "Ok" /\ HasFraction)
    => dtResult.dt.nano = Decimal(FractionPart) * 1000

\* An optional sign followed by at least one digit, and nothing else.
IsInteger(t) ==
    LET digits == IF t # <<>> /\ t[1] \in { "+", "-" } THEN Tail(t) ELSE t
    IN  /\ digits # <<>>
        /\ \A i \in 1..Len(digits) : IsDigit(digits[i])

\* C13: a text whose first 21 bytes are a valid date-time with fraction and whose
\* remainder is no signed integer parses to an error.
C13_BadOffsetIsError ==
    (/\ dtResult.kind # "none"
     /\ split_at(dtInput, 21).ok
     /\ datetime_from_str(split_at(dtInput, 21).head).kind = "Ok"
     /\ ~IsInteger(OffsetPart))
    => dtResult.kind = "Err"

(***************************************************************************)
(* Properties of the cursor across calls.                                  *)
(***************************************************************************)
\* A call of next() ends in this step.
PullEnds == Len(results') = Len(results) + 1

Last_next == results'[Len(results')]

C15_BufferClearedOnce ==
    (Len(results) > 0 /\ lastPull.gets = 1 /\ proc = "running") => lastPull.clears = 1

\* A call of next() makes at most one native fetch, and asks it for one record.
OneFetchPerPull ==
    /\ lastPull.fetchCalls <= 1
    /\ lastPull.fetchCount = lastPull.fetchCalls
    /\ lastPull.acquired <= lastPull.fetchCalls

\* C16, as claimed: a call of next() makes at most one native fetch, for one
\* record, and a call of query() makes exactly one ExecQuery call.
C16_NoRetries ==
    /\ OneFetchPerPull
    /\ queryResult # "pending" => execCalls = 1

\* C16, amended: a call of next() makes at most one native fetch, for one record,
\* and a call of query() makes one ExecQuery call whatever its status, except
\* that it makes none when the query text holds a NUL and fails to convert.
C16_AtMostOneNativeCall ==
    /\ OneFetchPerPull
    /\ execCalls <= 1
    /\ queryResult # "pending" => execCalls = (IF ContainsNul(queryText) THEN 0 ELSE 1)

\* C16's case: ExecQuery was called once, and the last next() made one fetch,
\* which failed and was not tried again.
C16_Witness ==
    /\ queryResult = "Ok"
    /\ execCalls = 1
    /\ Len(results) > 0
    /\ Last.kind = "SomeErr"
    /\ lastPull.fetchCalls = 1

\* How many of the first n calls of next() fetched a record.
RECURSIVE FetchedBefore(_)
FetchedBefore(n) ==
    IF n = 0 THEN 0
    ELSE FetchedBefore(n - 1) + (IF results[n].rec > 0 THEN 1 ELSE 0)

\* C17: a pull that fetched a record and failed to decode it (in this code, a
\* panic) leaves the cursor as it was, enumerator still held and unreleased, and
\* moves the native cursor by one record exactly as a pull that succeeded: every
\* call that fetches gets the record after the last one fetched, whatever became
\* of the calls before it.
C17_DecodeFailureKeepsCursor ==
    /\ [](\A i \in 1..Len(results) :
            results[i].rec > 0 => results[i].rec = FetchedBefore(i - 1) + 1)
    /\ [][ (PullEnds /\ Last_next.kind = "Panic") =>
              /\ cursor' = cursor
              /\ cursor'.p_enumerator = "Some"
              /\ enumReleases' = enumReleases
              /\ enumRefs' = enumRefs
              /\ records' = records
              /\ proc' = proc
              /\ pos' = pos + 1
              /\ Last_next.rec = pos'
         ]_vars

\* C17's case: a pull failed to decode its record and the pull after it returned
\* the next record.
C17_Witness ==
    \E i \in 1..Len(results) - 1 :
        /\ results[i].kind = "Panic"
        /\ ~Decodable(records[results[i].rec])
        /\ results[i + 1].kind = "SomeOk"
        /\ results[i + 1].rec = results[i].rec + 1
        /\ results[i + 1].val = to_string(records[results[i + 1].rec].val).s

\* C18, as claimed: in every state after the enumerator's Release was issued the
\* cursor's enumerator slot is None.
C18_SlotNoneAfterRelease == enumReleases > 0 => cursor.p_enumerator = "None"

\* C18, amended: the release does not consume the slot, which still reads Some
\* when drop is over; a second release is unreachable because only drop issues
\* one, and after it the cursor is gone and nothing changes it or releases again.
C18_NoSecondRelease ==
    /\ [](enumReleases > 0 =>
            /\ cursor.state = "dropped"
            /\ cursor.p_enumerator = "Some"
            /\ enumReleases = 1)
    /\ [][enumReleases > 0 => UNCHANGED <<enumReleases, cursor>>]_vars

\* C18's case: drop has released the enumerator of a cursor that was pulled.
C18_Witness ==
    /\ enumReleases = 1
    /\ cursor = [state |-> "dropped", p_enumerator |-> "Some"]
    /\ Len(results) > 0

\* C19: no native fetch is issued on an enumerator that has been released: a call
\* of next() runs only on a live cursor whose enumerator has seen no Release, it
\* issues no Release and leaves the slot alone, and the only step that issues one
\* is the drop that ends the cursor.
C19_NoFetchAfterRelease ==
    [][ /\ PullEnds =>
            /\ cursor.state = "live"
            /\ enumReleases = 0
            /\ enumReleases' = 0
            /\ cursor'.p_enumerator = cursor.p_enumerator
            /\ cursor'.state = "live"
        /\ enumReleases' # enumReleases =>
            /\ ~PullEnds
            /\ cursor.state = "live"
            /\ cursor'.state = "dropped"
      ]_vars

\* C19's case: the enumerator was fetched from until it was exhausted, and then
\* released by drop.
C19_Witness ==
    /\ enumReleases = 1
    /\ cursor.state = "dropped"
    /\ Len(results) > 1
    /\ lastPull.fetchCalls = 1
    /\ Last.kind = "None"

\* C20: when ExecQuery reports success and hands back a null pointer, query()
\* returns a cursor whose slot is None; every next() on it returns None with no
\* native call, and dropping it issues no Release.
C20_NullEnumeratorCursor ==
    /\ (execCalls = 1 /\ check_hres(execHres) = "Ok" /\ enumRefs = 0) =>
          /\ queryResult = "Ok"
          /\ cursor.state \in { "live", "dropped" }
          /\ cursor.p_enumerator = "None"
    /\ (queryResult = "Ok" /\ cursor.p_enumerator = "None") =>
          /\ enumRefs = 0
          /\ \A i \in 1..Len(results) : results[i] = exhausted_item
          /\ lastPull = NoPull
          /\ pos = 0
          /\ objAcquired = 0
          /\ enumReleases = 0

\* C20's case: a cursor built over a null enumerator was pulled twice, with
\* records waiting on the native side, and then dropped.
C20_Witness ==
    /\ execCalls = 1
    /\ execHres = 0
    /\ enumRefs = 0
    /\ cursor = [state |-> "dropped", p_enumerator |-> "None"]
    /\ Len(results) >= 2
    /\ Len(records) > 0
    /\ enumReleases = 0

====
